---- MODULE Spec2Model ----
(***************************************************************************)
(* A model of src/up-right.py: the PDF table extraction (tool 1,           *)
(* extract_tables_from_multiple_pdfs and its caller) and the consolidation *)
(* (tool 2, detect_year_header, the vertical and horizontal mergers and    *)
(* process_files_and_tables).                                              *)
(*                                                                         *)
(* Text.  A cell text is a sequence of characters, each character a        *)
(* one-element string.  The Japanese characters of the source are written  *)
(* in romanised form, one token per character:                             *)
(*   "nen" = U+5E74 (year)   "gatsu" = U+6708 (month)  "do" = U+5EA6       *)
(*   "ji"  = U+81EA (from)   "so","no","ta" = the three characters of the  *)
(*   catch-all label (sonota, "other").                                    *)
(* Two words that the code only ever uses as a unit are one token each:    *)
(*   "fairumei" = the word "file name" of the file marker,                 *)
(*   "peji"     = the word "page" of the page marker.                      *)
(* A blank cell is the empty sequence.  Column 0 of the sheet holds        *)
(* strings (line 243 converts it), the other columns hold the cell texts.  *)
(***************************************************************************)
EXTENDS Integers, Sequences, FiniteSets, TLC

(***************************************************************************)
(* Characters and strings                                                  *)
(***************************************************************************)
Digits == {"0", "1", "2", "3", "4", "5", "6", "7", "8", "9"}

IsDigit(c) == c \in Digits

DigitVal(c) ==
    CASE c = "0" -> 0 [] c = "1" -> 1 [] c = "2" -> 2 [] c = "3" -> 3
      [] c = "4" -> 4 [] c = "5" -> 5 [] c = "6" -> 6 [] c = "7" -> 7
      [] c = "8" -> 8 [] c = "9" -> 9

DigitChar(n) ==
    CASE n = 0 -> "0" [] n = 1 -> "1" [] n = 2 -> "2" [] n = 3 -> "3"
      [] n = 4 -> "4" [] n = 5 -> "5" [] n = 6 -> "6" [] n = 7 -> "7"
      [] n = 8 -> "8" [] n = 9 -> "9"

\* The code point of a character: Python compares strings by code point.
CodePoint(c) ==
    CASE c = " " -> 32 [] c = "'" -> 39 [] c = "(" -> 40 [] c = "," -> 44
      [] c = "-" -> 45 [] c = "/" -> 47 [] c = ":" -> 58
      [] c \in Digits -> 48 + DigitVal(c)
      [] c = "A" -> 65 [] c = "B" -> 66 [] c = "C" -> 67 [] c = "D" -> 68
      [] c = "E" -> 69 [] c = "M" -> 77 [] c = "P" -> 80 [] c = "Q" -> 81
      [] c = "T" -> 84 [] c = "_" -> 95
      [] c = "e" -> 101 [] c = "m" -> 109 [] c = "p" -> 112 [] c = "q" -> 113
      [] c = "t" -> 116
      [] c = "so" -> 12381 [] c = "no" -> 12398 [] c = "fairumei" -> 12501
      [] c = "peji" -> 12506 [] c = "ta" -> 20182 [] c = "nen" -> 24180
      [] c = "do" -> 24230 [] c = "gatsu" -> 26376 [] c = "ji" -> 33258

\* The character at position i of s, or a mark that is no character.
At(s, i) == IF i \in 1..Len(s) THEN s[i] ELSE "EOS"

\* LET x == v IN F(x), with v evaluated once however often F uses x.
Bind(v, F(_)) == CHOOSE r \in {F(x) : x \in {v}} : TRUE

SetMin(S) == CHOOSE x \in S : \A y \in S : x <= y

SetMax(S) == CHOOSE x \in S : \A y \in S : y <= x

\* str.strip(): the text without its leading and trailing blanks.
Strip(s) ==
    LET keep == {i \in 1..Len(s) : s[i] # " "}
    IN  IF keep = {} THEN <<>> ELSE SubSeq(s, SetMin(keep), SetMax(keep))

\* pat in s (str.contains of a literal, re.search of a literal).
Contains(s, pat) ==
    \E i \in 1..(Len(s) - Len(pat) + 1) : SubSeq(s, i, i + Len(pat) - 1) = pat

\* The characters of s from position k on that satisfy Keep.
RECURSIVE FilterFrom(_, _, _)
FilterFrom(s, Keep(_), k) ==
    IF k > Len(s) THEN <<>>
    ELSE (IF Keep(s[k]) THEN <<s[k]>> ELSE <<>>) \o FilterFrom(s, Keep, k + 1)

\* str.replace(ch, ""): every occurrence of one character removed.
RemoveChar(s, ch) == FilterFrom(s, LAMBDA c : c # ch, 1)

\* str(n) of a natural number.
RECURSIVE NatToStr(_)
NatToStr(n) ==
    IF n < 10 THEN <<DigitChar(n)>>
    ELSE NatToStr(n \div 10) \o <<DigitChar(n % 10)>>

\* int(s) of a run of digits: the value of its first k digits.
RECURSIVE DigitsValue(_, _)
DigitsValue(s, k) ==
    IF k = 0 THEN 0 ELSE 10 * DigitsValue(s, k - 1) + DigitVal(s[k])

DigitsToNat(s) == DigitsValue(s, Len(s))

AllDigits(s) == \A i \in 1..Len(s) : IsDigit(s[i])

\* s < t as Python compares two strings: by the code points at the first
\* position where they differ, a proper prefix being smaller.
StrLess(s, t) ==
    LET differ == {k \in 1..Len(s) : k > Len(t) \/ s[k] # t[k]}
    IN  IF differ = {} THEN Len(s) < Len(t)
        ELSE SetMin(differ) <= Len(t)
             /\ CodePoint(s[SetMin(differ)]) < CodePoint(t[SetMin(differ)])

(***************************************************************************)
(* detect_year_header: the seven patterns, tried in order; each is         *)
(* re.search, so a pattern without ^ may match anywhere and its leftmost   *)
(* match is taken.  None is the empty sequence (no formatter output is     *)
(* empty).                                                                 *)
(***************************************************************************)
FourDigitsAt(s, i) ==
    /\ IsDigit(At(s, i)) /\ IsDigit(At(s, i + 1))
    /\ IsDigit(At(s, i + 2)) /\ IsDigit(At(s, i + 3))

\* \d{1,2} followed by the character `after`, at position i: the number of
\* digits taken (2 is tried first), or 0 if there is no match.
OneOrTwoDigitsThen(s, i, after) ==
    IF IsDigit(At(s, i)) /\ IsDigit(At(s, i + 1)) /\ At(s, i + 2) = after THEN 2
    ELSE IF IsDigit(At(s, i)) /\ At(s, i + 1) = after THEN 1
    ELSE 0

\* (20\d{2}Q[1-4]), ignoring case
QuarterAt(s, i) ==
    /\ At(s, i) = "2" /\ At(s, i + 1) = "0"
    /\ IsDigit(At(s, i + 2)) /\ IsDigit(At(s, i + 3))
    /\ At(s, i + 4) \in {"Q", "q"}
    /\ At(s, i + 5) \in {"1", "2", "3", "4"}

MatchQuarter(s) ==
    LET hits == {i \in 1..Len(s) : QuarterAt(s, i)}
    IN  IF hits = {} THEN <<>>
        ELSE LET i == SetMin(hits)
             IN  SubSeq(s, i, i + 3) \o <<"Q", s[i + 5]>>

\* (\d{4})nen(\d{1,2})gatsu
YearMonthAt(s, i) ==
    /\ FourDigitsAt(s, i) /\ At(s, i + 4) = "nen"
    /\ OneOrTwoDigitsThen(s, i + 5, "gatsu") > 0

YearMonthOut(s, i) ==
    SubSeq(s, i, i + 3) \o <<"/">>
        \o SubSeq(s, i + 5, i + 4 + OneOrTwoDigitsThen(s, i + 5, "gatsu"))

\* The position after the blanks that start at i (\s*).
RECURSIVE SkipBlanks(_, _)
SkipBlanks(s, i) == IF At(s, i) = " " THEN SkipBlanks(s, i + 1) ELSE i

\* \(?ji\s*(\d{4})nen(\d{1,2})gatsu : the optional parenthesis only moves
\* the start of the match, so the leftmost match is at the leftmost "ji"
\* that the rest of the pattern follows.
PeriodStartAt(s, i) == At(s, i) = "ji" /\ YearMonthAt(s, SkipBlanks(s, i + 1))

MatchPeriodStart(s) ==
    LET hits == {i \in 1..Len(s) : PeriodStartAt(s, i)}
    IN  IF hits = {} THEN <<>>
        ELSE YearMonthOut(s, SkipBlanks(s, SetMin(hits) + 1))

MatchYearMonth(s) ==
    LET hits == {i \in 1..Len(s) : YearMonthAt(s, i)}
    IN  IF hits = {} THEN <<>> ELSE YearMonthOut(s, SetMin(hits))

\* (\d{4})nendo
FiscalYearAt(s, i) ==
    FourDigitsAt(s, i) /\ At(s, i + 4) = "nen" /\ At(s, i + 5) = "do"

MatchFiscalYear(s) ==
    LET hits == {i \in 1..Len(s) : FiscalYearAt(s, i)}
    IN  IF hits = {} THEN <<>>
        ELSE SubSeq(s, SetMin(hits), SetMin(hits) + 3) \o <<"nen", "do">>

\* ^'?(\d{2})/(\d{1,2})$
MatchShortSlash(s) ==
    LET b == IF At(s, 1) = "'" THEN 2 ELSE 1
        n == OneOrTwoDigitsThen(s, b + 3, "EOS")
    IN  IF /\ IsDigit(At(s, b)) /\ IsDigit(At(s, b + 1)) /\ At(s, b + 2) = "/"
           /\ n > 0
        THEN <<"2", "0">> \o SubSeq(s, b, b + 1) \o <<"/">>
                 \o SubSeq(s, b + 3, b + 2 + n)
        ELSE <<>>

\* (\d{4})/(\d{1,2}) : the second group takes two digits when it can
SlashAt(s, i) ==
    FourDigitsAt(s, i) /\ At(s, i + 4) = "/" /\ IsDigit(At(s, i + 5))

MatchSlash(s) ==
    LET hits == {i \in 1..Len(s) : SlashAt(s, i)}
    IN  IF hits = {} THEN <<>>
        ELSE LET i == SetMin(hits)
                 n == IF IsDigit(At(s, i + 6)) THEN 2 ELSE 1
             IN  SubSeq(s, i, i + 3) \o <<"/">> \o SubSeq(s, i + 5, i + 4 + n)

\* ^20\d{2}(\d{2})?$
MatchBareNumber(s) ==
    IF /\ Len(s) \in {4, 6} /\ AllDigits(s)
       /\ s[1] = "2" /\ s[2] = "0"
    THEN s ELSE <<>>

\* Lines 89-104: the outputs of the patterns for s, in the order of the
\* list; <<>> where a pattern does not match.
patterns(s) ==
    <<MatchQuarter(s), MatchPeriodStart(s), MatchYearMonth(s), MatchFiscalYear(s),
      MatchShortSlash(s), MatchSlash(s), MatchBareNumber(s)>>

\* An unsound search: the last pattern of the list that matches wins.
FirstMatchReversed(s) ==
    IF MatchBareNumber(s) # <<>> THEN MatchBareNumber(s)
    ELSE IF MatchSlash(s) # <<>> THEN MatchSlash(s)
    ELSE IF MatchShortSlash(s) # <<>> THEN MatchShortSlash(s)
    ELSE IF MatchFiscalYear(s) # <<>> THEN MatchFiscalYear(s)
    ELSE IF MatchYearMonth(s) # <<>> THEN MatchYearMonth(s)
    ELSE IF MatchPeriodStart(s) # <<>> THEN MatchPeriodStart(s)
    ELSE MatchQuarter(s)

\* Lines 106-111: the output of the first pattern that matches s.
FirstMatch(s) ==
    IF MatchQuarter(s) # <<>> THEN MatchQuarter(s)
    ELSE IF MatchPeriodStart(s) # <<>> THEN MatchPeriodStart(s)
    ELSE IF MatchYearMonth(s) # <<>> THEN MatchYearMonth(s)
    ELSE IF MatchFiscalYear(s) # <<>> THEN MatchFiscalYear(s)
    ELSE IF MatchShortSlash(s) # <<>> THEN MatchShortSlash(s)
    ELSE IF MatchSlash(s) # <<>> THEN MatchSlash(s)
    ELSE MatchBareNumber(s)

detect_year_header(cell_value) == Bind(Strip(cell_value), LAMBDA s : FirstMatch(s))

(***************************************************************************)
(* Frames.  A chunk (df_chunk) is a sequence of rows, each row a sequence  *)
(* of cell texts of the same length; column c of the code is column c + 1  *)
(* here.  A frame (a DataFrame with the label column and the period        *)
(* columns) is a record                                                    *)
(*    items : the label column, top to bottom                              *)
(*    cols  : the names of the period columns, left to right               *)
(*    vals  : per row, the values of the period columns, in cols' order    *)
(* A value is <<n>> for the number n and <<>> for NaN.  A merger returns   *)
(* [ok, frame, item_order]; ok = FALSE stands for the frame None.          *)
(***************************************************************************)
Sonota == <<"so", "no", "ta">>

TempPrefix == <<"_", "t", "e", "m", "p", "_">>

NaN == <<>>

EmptyFrame == [items |-> <<>>, cols |-> <<>>, vals |-> <<>>]

NoResult == [ok |-> FALSE, frame |-> EmptyFrame, item_order |-> <<>>]

Width(chunk) == IF chunk = <<>> THEN 0 ELSE Len(chunk[1])

\* The numbers from..n, in increasing order, that satisfy Keep.
RECURSIVE SelectIdx(_, _, _)
SelectIdx(n, Keep(_), from) ==
    IF from > n THEN <<>>
    ELSE (IF Keep(from) THEN <<from>> ELSE <<>>) \o SelectIdx(n, Keep, from + 1)

\* The elements of seq at the positions idx.
Pick(seq, idx) == [k \in 1..Len(idx) |-> seq[idx[k]]]

\* An optional minus sign and decimal digits give the number, anything else
\* NaN.
ParseDigits(t) ==
    IF t # <<>> /\ AllDigits(t) THEN <<DigitsToNat(t)>>
    ELSE IF Len(t) > 1 /\ t[1] = "-" /\ AllDigits(Tail(t))
         THEN <<0 - DigitsToNat(Tail(t))>>
    ELSE NaN

\* pd.to_numeric(text.replace(",", ""), errors='coerce') for the cell texts
\* of the model.
ParseNumeric(text) == Bind(RemoveChar(text, ","), LAMBDA t : ParseDigits(t))

\* An unsound disambiguation: the catch-all labels are left as they are.
SuffixSonotaNever(labels) == labels

\* The catch-all labels get "_temp_" and their running count among the
\* catch-all labels of the same column (groupby(...).cumcount()).
SuffixSonota(labels) ==
    [k \in 1..Len(labels) |->
        IF labels[k] = Sonota
        THEN Sonota \o TempPrefix
                 \o NatToStr(Cardinality({j \in 1..(k - 1) : labels[j] = Sonota}))
        ELSE labels[k]]

\* The positions drop_duplicates(keep="first") keeps.
FirstOccurrences(labels) ==
    SelectIdx(Len(labels), LAMBDA k : \A j \in 1..(k - 1) : labels[j] # labels[k], 1)

\* pd.merge(left, right, on=label column, how="left"): every row of left, in
\* order, once per row of right with the same label, or once with NaN in
\* right's columns if there is none.  A merged row is <<label, values>>.
MergedRow(left, right, row, matches) ==
    IF matches = <<>>
    THEN << <<left.items[row], left.vals[row] \o [c \in 1..Len(right.cols) |-> NaN]>> >>
    ELSE [k \in 1..Len(matches) |->
             <<left.items[row], left.vals[row] \o right.vals[matches[k]]>>]

RECURSIVE MergeRows(_, _, _)
MergeRows(left, right, row) ==
    IF row > Len(left.items) THEN <<>>
    ELSE Bind(SelectIdx(Len(right.items),
                        LAMBDA j : right.items[j] = left.items[row], 1),
              LAMBDA matches : MergedRow(left, right, row, matches))
             \o MergeRows(left, right, row + 1)

FrameOfRows(rows, cols) ==
    [items |-> [k \in 1..Len(rows) |-> rows[k][1]],
     cols  |-> cols,
     vals  |-> [k \in 1..Len(rows) |-> rows[k][2]]]

LeftMerge(left, right) ==
    Bind(MergeRows(left, right, 1),
         LAMBDA rows : FrameOfRows(rows, left.cols \o right.cols))

(***************************************************************************)
(* tool2_extract_data_vertical                                             *)
(***************************************************************************)
\* The cell with number k of a chunk of width w, rows first.
RowOf(k, w) == ((k - 1) \div w) + 1

ColOf(k, w) == ((k - 1) % w) + 1

YearCell(df_chunk, k, w) ==
    [row |-> RowOf(k, w), col |-> ColOf(k, w),
     year_header |-> detect_year_header(df_chunk[RowOf(k, w)][ColOf(k, w)])]

\* Lines 120-126, 131: the cells of the first `rows` rows in which a period
\* header is detected, by row and then by column.
YearCellsIn(df_chunk, rows, w) ==
    Bind(SelectIdx(rows * w,
                   LAMBDA k : detect_year_header(df_chunk[RowOf(k, w)][ColOf(k, w)]) # <<>>,
                   1),
         LAMBDA hits : [h \in 1..Len(hits) |-> YearCell(df_chunk, hits[h], w)])

YearCells(df_chunk) == YearCellsIn(df_chunk, Len(df_chunk), Width(df_chunk))

\* The rows below row `above` whose trimmed label is not blank.
LabelledRows(df_chunk, above) ==
    SelectIdx(Len(df_chunk), LAMBDA r : r > above /\ Strip(df_chunk[r][1]) # <<>>, 1)

\* The trimmed labels of rows, catch-all labels suffixed.
LabelsOf(df_chunk, rows) ==
    SuffixSonota([k \in 1..Len(rows) |-> Strip(df_chunk[rows[k]][1])])

\* An unsound item list: the labels below the first period header only.
InitialItemsBelowHeader(df_chunk) ==
    Bind(LabelledRows(df_chunk, IF YearCells(df_chunk) = <<>> THEN 0
                                ELSE YearCells(df_chunk)[1].row), LAMBDA rows :
    Bind(LabelsOf(df_chunk, rows), LAMBDA labels :
    Bind(FirstOccurrences(labels), LAMBDA keep : Pick(labels, keep))))

\* Lines 134-141: the trimmed non-blank labels of column 0 of the whole
\* chunk, catch-all labels suffixed, first occurrences kept.
InitialItems(df_chunk) ==
    Bind(LabelledRows(df_chunk, 0), LAMBDA rows :
    Bind(LabelsOf(df_chunk, rows), LAMBDA labels :
    Bind(FirstOccurrences(labels), LAMBDA keep : Pick(labels, keep))))

\* errors='coerce' and fillna(0), lines 161-163
NumericOrZero(text) == Bind(ParseNumeric(text), LAMBDA v : IF v = NaN THEN <<0>> ELSE v)

\* Lines 151-164: the two-column slice below one header cell, as a frame
\* with the one period column year_header.
VerticalSlice(df_chunk, cell) ==
    Bind(LabelledRows(df_chunk, cell.row), LAMBDA below :
    Bind(LabelsOf(df_chunk, below), LAMBDA labels :
    Bind(FirstOccurrences(labels), LAMBDA keep :
        [items |-> Pick(labels, keep),
         cols  |-> <<cell.year_header>>,
         vals  |-> [k \in 1..Len(keep) |->
                      <<NumericOrZero(df_chunk[below[keep[k]]][cell.col])>>]])))

\* Lines 144-165: the loop over the header cells, from cell h on;
\* processed_years is the set of the column names the result already has.
RECURSIVE VerticalLoop(_, _, _, _)
VerticalLoop(df_chunk, year_cells, h, df_result) ==
    IF h > Len(year_cells) THEN df_result
    ELSE IF \E k \in 1..Len(df_result.cols) :
                df_result.cols[k] = year_cells[h].year_header
         THEN VerticalLoop(df_chunk, year_cells, h + 1, df_result)
    ELSE Bind(VerticalSlice(df_chunk, year_cells[h]), LAMBDA temp_df :
         Bind(LeftMerge(df_result, temp_df), LAMBDA merged :
              VerticalLoop(df_chunk, year_cells, h + 1, merged)))

VerticalResult(df_chunk, year_cells, all_items_ordered) ==
    IF year_cells = <<>> THEN NoResult
    ELSE [ok |-> TRUE,
          frame |-> VerticalLoop(df_chunk, year_cells, 1,
                        [items |-> all_items_ordered, cols |-> <<>>,
                         vals |-> [k \in 1..Len(all_items_ordered) |-> <<>>]]),
          item_order |-> all_items_ordered]

tool2_extract_data_vertical(df_chunk) ==
    IF df_chunk = <<>> \/ Width(df_chunk) = 0 THEN NoResult
    ELSE Bind(YearCells(df_chunk), LAMBDA year_cells :
         Bind(InitialItems(df_chunk), LAMBDA all_items_ordered :
              VerticalResult(df_chunk, year_cells, all_items_ordered)))

(***************************************************************************)
(* tool2_extract_data_horizontal                                           *)
(***************************************************************************)
HeaderScanRows == 10

UnknownPeriod == <<"Unknown_Period">>

\* Lines 177, 182: the columns that are not blank in every row, their blank
\* cells (white space only) made empty.
KeptColumns(df_chunk) ==
    SelectIdx(Width(df_chunk),
              LAMBDA c : \E r \in 1..Len(df_chunk) : Strip(df_chunk[r][c]) # <<>>, 1)

DropBlankColumns(df_chunk) ==
    Bind(KeptColumns(df_chunk), LAMBDA keep :
        [r \in 1..Len(df_chunk) |->
            [k \in 1..Len(keep) |->
                IF Strip(df_chunk[r][keep[k]]) = <<>> THEN <<>>
                ELSE df_chunk[r][keep[k]]]])

\* Lines 185-197: the first cell of the first rows, row by row, in which a
\* period header is detected; row 0 if there is none (header_row_idx = -1).
HeaderHit(df_target) ==
    Bind(YearCellsIn(df_target,
                     IF Len(df_target) < HeaderScanRows THEN Len(df_target)
                     ELSE HeaderScanRows,
                     Width(df_target)),
         LAMBDA cells : IF cells = <<>> THEN [row |-> 0, year_header |-> <<>>]
                        ELSE [row |-> cells[1].row, year_header |-> cells[1].year_header])

\* The texts of S in increasing order (the group keys of groupby, which
\* sorts them).
RECURSIVE SortedKeys(_)
SortedKeys(S) ==
    IF S = {} THEN <<>>
    ELSE Bind(CHOOSE x \in S : \A y \in S : y = x \/ StrLess(x, y),
              LAMBDA least : Bind(S \ {least}, LAMBDA rest : <<least>> \o SortedKeys(rest)))

RECURSIVE SumFrom(_, _)
SumFrom(numbers, k) ==
    IF k > Len(numbers) THEN 0 ELSE numbers[k][1] + SumFrom(numbers, k + 1)

\* An unsound total: the value of the first row of the group only.
GroupFirst(labels, numbers, key) ==
    numbers[SetMin({k \in 1..Len(labels) : labels[k] = key})][1]

GroupSum(labels, numbers, key) ==
    Bind(SelectIdx(Len(labels), LAMBDA k : labels[k] = key, 1),
         LAMBDA members : SumFrom(Pick(numbers, members), 1))

\* Line 225: groupby(label, as_index=False).sum()
GroupBySum(labels, numbers) ==
    Bind(SortedKeys({labels[k] : k \in 1..Len(labels)}), LAMBDA keys :
        [items |-> keys,
         vals  |-> [g \in 1..Len(keys) |-> << <<GroupSum(labels, numbers, keys[g])>> >>]])

\* Lines 208-218: the rows below the header row whose label is not blank and
\* whose value in the last column is a number.
DataRows(df_target, header_row) ==
    SelectIdx(Len(df_target),
              LAMBDA r : /\ r > header_row
                         /\ Strip(df_target[r][1]) # <<>>
                         /\ ParseNumeric(df_target[r][Width(df_target)]) # NaN,
              1)

\* Lines 199-202
DetectedHeader(df_target, hit) ==
    IF hit.year_header # <<>> THEN hit.year_header
    ELSE IF Strip(df_target[1][Width(df_target)]) # <<>>
         THEN Strip(df_target[1][Width(df_target)])
    ELSE UnknownPeriod

HorizontalResult(detected_header, grouped) ==
    [ok |-> TRUE,
     frame |-> [items |-> grouped.items, cols |-> <<detected_header>>,
                vals |-> grouped.vals],
     item_order |-> grouped.items]

HorizontalOf(df_target) ==
    IF Width(df_target) < 2 THEN NoResult
    ELSE Bind(HeaderHit(df_target), LAMBDA hit :
         Bind(DataRows(df_target, hit.row), LAMBDA rows :
         Bind(LabelsOf(df_target, rows), LAMBDA labels :
         Bind([k \in 1..Len(rows) |-> ParseNumeric(df_target[rows[k]][Width(df_target)])],
              LAMBDA numbers :
         Bind(GroupBySum(labels, numbers), LAMBDA grouped :
              HorizontalResult(DetectedHeader(df_target, hit), grouped))))))

tool2_extract_data_horizontal(df_chunk) ==
    IF df_chunk = <<>> \/ Width(df_chunk) = 0 THEN NoResult
    ELSE Bind(DropBlankColumns(df_chunk), LAMBDA df_target : HorizontalOf(df_target))

(***************************************************************************)
(* process_files_and_tables: segmentation                                  *)
(*                                                                         *)
(* df_full is the sheet after line 243: a sequence of rows of one width    *)
(* whose column 0 holds strings.  Since column 0 of no row is missing,     *)
(* dropna(how="all") (lines 266, 282) drops no row.                        *)
(***************************************************************************)
FileMarker == <<"fairumei", ":">>

PageMarker == <<"-", "-", "-", " ", "peji">>

Dashes == <<"-", "-", "-">>

\* The rows of df, in order, that satisfy Keep.
SelectRows(df, Keep(_)) ==
    Bind(SelectIdx(Len(df), LAMBDA r : Keep(df[r]), 1), LAMBDA idx : Pick(df, idx))

\* Lines 250-253: chunk k runs from marker k to the row before the next one.
FileChunk(df, file_indices, k) ==
    SubSeq(df, file_indices[k],
           IF k < Len(file_indices) THEN file_indices[k + 1] - 1 ELSE Len(df))

\* Lines 244-253: one chunk per file marker; the whole sheet if there is no
\* marker.
FileChunks(df) ==
    Bind(SelectIdx(Len(df), LAMBDA r : Contains(df[r][1], FileMarker), 1),
         LAMBDA file_indices :
             IF file_indices = <<>> THEN <<df>>
             ELSE [k \in 1..Len(file_indices) |-> FileChunk(df, file_indices, k)])

\* Lines 264-266
IsPlainRow(row) ==
    /\ ~Contains(row[1], FileMarker)
    /\ ~Contains(row[1], Dashes)
    /\ Strip(row[1]) # <<>>

\* Lines 270-277: cut k is file_chunk.iloc[last_idx:idx] for the k-th page
\* marker, and the rest of the file chunk for k = number of markers + 1.
CutFrom(page_indices, k) == IF k = 1 THEN 1 ELSE page_indices[k - 1]

CutTo(file_chunk, page_indices, k) ==
    IF k <= Len(page_indices) THEN page_indices[k] - 1 ELSE Len(file_chunk)

Cuts(file_chunk, page_indices) ==
    Bind(SelectIdx(Len(page_indices) + 1,
                   LAMBDA k : CutFrom(page_indices, k) <= CutTo(file_chunk, page_indices, k),
                   1),
         LAMBDA cuts :
             [k \in 1..Len(cuts) |->
                 SubSeq(file_chunk, CutFrom(page_indices, cuts[k]),
                        CutTo(file_chunk, page_indices, cuts[k]))])

\* Lines 259-277: the table chunks of one file chunk, in order.
TableChunks(file_chunk) ==
    Bind(SelectIdx(Len(file_chunk),
                   LAMBDA r : Contains(file_chunk[r][1], PageMarker), 1),
         LAMBDA page_indices :
             IF page_indices = <<>>
             THEN Bind(SelectRows(file_chunk, IsPlainRow),
                       LAMBDA clean_chunk :
                           IF clean_chunk # <<>> THEN <<clean_chunk>> ELSE <<>>)
             ELSE Cuts(file_chunk, page_indices))

\* Lines 280-282: a table chunk without its marker rows.
IsNoMarkerRow(row) == ~Contains(row[1], FileMarker) /\ ~Contains(row[1], Dashes)

CleanTableChunk(table_chunk) == SelectRows(table_chunk, IsNoMarkerRow)

\* Lines 287-290: the merger of the run's mode.
Merger(mode, chunk) ==
    IF mode = "vertical" THEN tool2_extract_data_vertical(chunk)
    ELSE tool2_extract_data_horizontal(chunk)

\* list.index(item): the first position of item, from 0; -1 if absent.
IndexOf(list, item) ==
    IF \E k \in 1..Len(list) : list[k] = item
    THEN SetMin({k \in 1..Len(list) : list[k] = item}) - 1
    ELSE -1

\* list.insert(at, item), at counted from 0.
InsertAt(list, at, item) ==
    SubSeq(list, 1, at) \o <<item>> \o SubSeq(list, at + 1, Len(list))

\* An unsound fold: every new label is put at the end of the list.
RECURSIVE FoldFromAppending(_, _, _, _)
FoldFromAppending(current_master_order, item_order, k, last_known_index) ==
    IF k > Len(item_order) THEN current_master_order
    ELSE IF IndexOf(current_master_order, item_order[k]) >= 0
         THEN FoldFromAppending(current_master_order, item_order, k + 1, last_known_index)
    ELSE Bind(Append(current_master_order, item_order[k]), LAMBDA appended :
              FoldFromAppending(appended, item_order, k + 1, last_known_index))

\* Lines 299-305: the loop over item_order from position k on.
RECURSIVE FoldFrom(_, _, _, _)
FoldFrom(current_master_order, item_order, k, last_known_index) ==
    IF k > Len(item_order) THEN current_master_order
    ELSE Bind(IndexOf(current_master_order, item_order[k]), LAMBDA found :
         IF found >= 0
         THEN FoldFrom(current_master_order, item_order, k + 1, found)
         ELSE Bind(InsertAt(current_master_order, last_known_index + 1, item_order[k]),
                   LAMBDA inserted :
                       Bind(last_known_index + 1, LAMBDA last :
                            FoldFrom(inserted, item_order, k + 1, last))))

\* Lines 295-305
UpdateMasterOrder(current_master_order, item_order) ==
    IF current_master_order = <<>> THEN item_order
    ELSE FoldFrom(current_master_order, item_order, 1, -1)

(***************************************************************************)
(* process_files_and_tables: one summary per slot                          *)
(***************************************************************************)
\* str.upper() of one character
UpperChar(c) ==
    CASE c = "q" -> "Q" [] c = "t" -> "T" [] c = "e" -> "E"
      [] c = "m" -> "M" [] c = "p" -> "P" [] OTHER -> c

\* str.replace(old, new) from position k on: the occurrences of old, left
\* to right, replaced.
RECURSIVE ReplaceFrom(_, _, _, _)
ReplaceFrom(s, old, new, k) ==
    IF k > Len(s) THEN <<>>
    ELSE IF k + Len(old) - 1 <= Len(s) /\ SubSeq(s, k, k + Len(old) - 1) = old
         THEN new \o ReplaceFrom(s, old, new, k + Len(old))
    ELSE <<s[k]>> \o ReplaceFrom(s, old, new, k + 1)

ReplaceAll(s, old, new) == ReplaceFrom(s, old, new, 1)

\* str.ljust(width, fill)
LJust(s, width, fill) ==
    s \o [k \in 1..(IF Len(s) >= width THEN 0 ELSE width - Len(s)) |-> fill]

SortKeyWidth == 6

SortKeyLast == 99999999

SortKeyOfDigits(digits) ==
    IF digits # <<>> THEN DigitsToNat(LJust(digits, SortKeyWidth, "0"))
    ELSE SortKeyLast

\* Lines 327-332
sort_key(col_name) ==
    Bind([k \in 1..Len(col_name) |-> UpperChar(col_name[k])] \o <<>>, LAMBDA u :
    Bind(ReplaceAll(u, <<"/">>, <<>>), LAMBDA s1 :
    Bind(ReplaceAll(s1, <<"Q">>, <<"0">>), LAMBDA s2 :
    Bind(ReplaceAll(s2, <<"nen", "do">>, <<>>), LAMBDA s3 :
    Bind(ReplaceAll(s3, <<"nen">>, <<>>), LAMBDA s4 :
    Bind(ReplaceAll(s4, <<"gatsu">>, <<>>), LAMBDA s5 :
    Bind(FilterFrom(s5, IsDigit, 1), LAMBDA digits : SortKeyOfDigits(digits))))))))

\* The position in `left` whose key comes first; of equal keys the leftmost
\* (sorted is stable).
FirstByKey(keys, left) ==
    CHOOSE k \in left : \A j \in left :
        keys[k] < keys[j] \/ (keys[k] = keys[j] /\ k <= j)

RECURSIVE SortedByKey(_, _)
SortedByKey(keys, left) ==
    IF left = {} THEN <<>>
    ELSE Bind(FirstByKey(keys, left), LAMBDA first :
         Bind(left \ {first}, LAMBDA rest : <<first>> \o SortedByKey(keys, rest)))

\* Lines 334-337: sorted(cols, key=sort_key), as the positions of cols in
\* the sorted order.
SortedPositions(cols) ==
    Bind([k \in 1..Len(cols) |-> sort_key(cols[k])] \o <<>>,
         LAMBDA keys : SortedByKey(keys, 1..Len(cols)))

\* Line 344: re.sub("_temp_\d+$", "", label)
StripTempSuffix(label) ==
    LET cut == {k \in 1..Len(label) :
                   /\ k + Len(TempPrefix) <= Len(label)
                   /\ SubSeq(label, k, k + Len(TempPrefix) - 1) = TempPrefix
                   /\ AllDigits(SubSeq(label, k + Len(TempPrefix), Len(label)))}
    IN  IF cut = {} THEN label ELSE SubSeq(label, 1, SetMin(cut) - 1)

\* An unsound merge: no period column is dropped from a later frame.
DropColumnsNever(frame, drop) == frame

\* Lines 318-320, 322: the frame without the period columns named in drop.
DropColumns(frame, drop) ==
    Bind(SelectIdx(Len(frame.cols), LAMBDA k : frame.cols[k] \notin drop, 1),
         LAMBDA keep :
             [items |-> frame.items,
              cols  |-> Pick(frame.cols, keep),
              vals  |-> [r \in 1..Len(frame.items) |-> Pick(frame.vals[r], keep)]])

\* Lines 317-323: the frames of a slot merged into the result, one by one,
\* from frame k on; a period column the result already has is dropped from
\* the incoming frame.
RECURSIVE MergeAll(_, _, _)
MergeAll(result_df, list_of_dfs, k) ==
    IF k > Len(list_of_dfs) THEN result_df
    ELSE Bind(DropColumns(list_of_dfs[k],
                          {result_df.cols[c] : c \in 1..Len(result_df.cols)}),
              LAMBDA incoming :
         Bind(LeftMerge(result_df, incoming), LAMBDA merged :
              MergeAll(merged, list_of_dfs, k + 1)))

\* Lines 325-346: zero for NaN, the period columns in sorted order, the
\* suffix of the catch-all labels removed.
FinishSummary(merged, order) ==
    [items |-> [r \in 1..Len(merged.items) |-> StripTempSuffix(merged.items[r])],
     cols  |-> Pick(merged.cols, order),
     vals  |-> [r \in 1..Len(merged.items) |->
                   [k \in 1..Len(order) |->
                       IF merged.vals[r][order[k]] = NaN THEN <<0>>
                       ELSE merged.vals[r][order[k]]]]]

\* Lines 315-346: the summary of one slot.
BuildSummary(list_of_dfs, ordered_items) ==
    Bind(MergeAll([items |-> ordered_items, cols |-> <<>>,
                   vals |-> [r \in 1..Len(ordered_items) |-> <<>>]],
                  list_of_dfs, 1),
         LAMBDA merged :
             Bind(SortedPositions(merged.cols), LAMBDA order : FinishSummary(merged, order)))

(***************************************************************************)
(* The sheets the consolidation is run on                                  *)
(***************************************************************************)
MaxRows == 3

MaxFiles == 2

MaxTables == 2

MaxItems == 3

LA == <<"A">>

LB == <<"B">>

LC == <<"C">>

LD == <<"D">>

PaddedA == <<" ", "A", " ">>

BlankText == <<" ">>

Q1 == <<"2", "0", "2", "4", "Q", "1">>

YM3 == <<"2", "0", "2", "4", "/", "3">>

YM12 == <<"2", "0", "2", "4", "/", "1", "2">>

ShortYM3 == <<"'", "2", "4", "/", "3">>

From24Apr == <<"(", "ji", " ", "2", "0", "2", "4", "nen", "4", "gatsu">>

Num(n) == NatToStr(n)

\* What line 243 makes of a missing cell of column 0: str(nan).
NanText == <<"n", "a", "n">>

\* The rows tool 1 writes (lines 25, 26, 64), w cells wide, as line 243
\* leaves them; the cells right of column 0 are missing.
FileMarkerRow(w) ==
    <<FileMarker \o <<" ", "A">> >> \o [c \in 1..(w - 1) |-> <<>>]

PageMarkerRow(w) ==
    <<PageMarker \o <<" ", "1", " ", "/", " ", "teburu", " ", "1", " ", "-", "-", "-">> >>
        \o [c \in 1..(w - 1) |-> <<>>]

BlankRow(w) == <<NanText>> \o [c \in 1..(w - 1) |-> <<>>]

\* Sequences over S of length lo..hi
SeqsOf(S, lo, hi) == UNION {[1..n -> S] : n \in lo..hi}

RECURSIVE Flatten(_)
Flatten(seqs) == IF seqs = <<>> THEN <<>> ELSE seqs[1] \o Flatten(Tail(seqs))

\* A file laid out as tool 1 lays it out: the file marker, a blank row, and
\* per table the page marker and the rows of the table.  The sheet is a
\* workbook the user uploads (line 455); the blank row tool 1 writes after a
\* table (line 68) is not part of these sheets.
FileRows(tables, w) ==
    <<FileMarkerRow(w), BlankRow(w)>>
        \o Flatten([t \in 1..Len(tables) |-> <<PageMarkerRow(w)>> \o tables[t]])

\* Grid sheets: one file with one table of up to MaxRows rows of a label and
\* one further cell, every combination of the texts below.
GridLabels == {LA, LB, PaddedA, BlankText, Sonota}

GridCells == {Num(100), <<"1", ",", "0", "5", "0">>, <<"-">>, Q1, YM3}

GridRows == {<<l, c>> : l \in GridLabels, c \in GridCells}

GridSheets == {FileRows(<<t>>, 2) : t \in SeqsOf(GridRows, 1, MaxRows)}

\* Order sheets: up to MaxFiles files of one table each, a header row and up
\* to MaxItems rows of distinct labels.
OrderLabels == {LA, LB, LC, LD}

DistinctLabelSeqs ==
    {q \in SeqsOf(OrderLabels, 1, MaxItems) : \A a, b \in 1..Len(q) : a # b => q[a] # q[b]}

OrderTables ==
    {<< <<BlankText, Q1>> >> \o [k \in 1..Len(ls) |-> <<ls[k], Num(100)>>] :
        ls \in DistinctLabelSeqs}

OrderSheets ==
    {Flatten([f \in 1..Len(ts) |-> FileRows(<<ts[f]>>, 2)]) :
        ts \in SeqsOf(OrderTables, 1, MaxFiles)}

\* Slot sheets: up to MaxFiles files of up to MaxTables tables each, the
\* tables taken from a fixed list: three that have periods in common, one
\* without a period header and one without rows.
TableA == << <<BlankText, Q1, YM3>>, <<LA, Num(100), Num(1)>>, <<LB, Num(50), Num(2)>> >>

TableB == << <<BlankText, ShortYM3, YM12>>, <<LA, Num(7), Num(8)>>, <<LC, Num(9), Num(10)>> >>

TableC == << <<BlankText, Q1, From24Apr>>, <<LD, Num(3), Num(4)>>, <<LA, Num(5), Num(6)>> >>

TableNoHeader == << <<LA, <<"-">>, <<"-">> >> >>

TableNoRows == <<>>

SlotTables == {TableA, TableB, TableC, TableNoHeader, TableNoRows}

SlotSheets ==
    {Flatten([f \in 1..Len(fs) |-> FileRows(fs[f], 3)]) :
        fs \in SeqsOf(SeqsOf(SlotTables, 0, MaxTables), 1, MaxFiles)}

\* Sheets without any marker row.
BareSheets == {TableA, TableB, TableC, TableNoHeader}

Modes == {"vertical", "horizontal"}

SlotIds == 0..MaxTables

(***************************************************************************)
(* Tool 1: the files the extraction is run on.  A file is a record         *)
(*    opens : whether pdfplumber.open succeeds                             *)
(*    start, end : current_start and current_end of lines 30-37, 0 for     *)
(*                 None (both are false in lines 43-44)                    *)
(*    pages : per page, whether its text holds a keyword, whether reading  *)
(*            it raises, and the number of rows of each of its tables      *)
(* A row of all_rows is <<>> (a blank row), <<"file", f>> (the file        *)
(* marker of file f), <<"page", f, p, t>> (the marker of table t of page   *)
(* p) or <<"row", f, p, t, r>> (row r of that table).                      *)
(***************************************************************************)
MaxPdfFiles == 2

MaxPages == 2

PlainPage == [keyword |-> FALSE, raises |-> FALSE, tables |-> <<1>>]

MatchPage == [keyword |-> TRUE, raises |-> FALSE, tables |-> <<1>>]

TwoTablePage == [keyword |-> TRUE, raises |-> FALSE, tables |-> <<0, 2>>]

RaisingPage == [keyword |-> FALSE, raises |-> TRUE, tables |-> <<>>]

Pages == {PlainPage, MatchPage, TwoTablePage, RaisingPage}

PageRanges == {<<0, 0>>, <<2, 0>>, <<2, 1>>}

PdfFiles ==
    {[opens |-> FALSE, start |-> 0, end |-> 0, pages |-> <<>>]}
        \cup {[opens |-> TRUE, start |-> r[1], end |-> r[2], pages |-> ps] :
                 r \in PageRanges, ps \in SeqsOf(Pages, 0, MaxPages)}

\* Lines 43-48: the pages s_idx..e_idx-1 (from 0) are read.
StartIndex(file) == IF file.start # 0 THEN file.start - 1 ELSE 0

EndIndex(file) ==
    LET e == IF file.end # 0 THEN file.end ELSE Len(file.pages)
    IN  IF e < Len(file.pages) THEN e ELSE Len(file.pages)

\* Lines 61-68: the rows of the tables of page p of file f, from table t on;
\* a table without rows is skipped.
RECURSIVE TableRows(_, _, _, _)
TableRows(f, p, tables, t) ==
    IF t > Len(tables) THEN <<>>
    ELSE (IF tables[t] = 0 THEN <<>>
          ELSE << <<"page", f, p, t>> >>
                   \o [r \in 1..tables[t] |-> <<"row", f, p, t, r>>]
                   \o << <<>> >>)
         \o TableRows(f, p, tables, t + 1)

(***************************************************************************)
(* State                                                                   *)
(***************************************************************************)
VARIABLES
    df_full,            \* the sheet read (lines 238, 243)
    integration_mode,   \* "vertical" or "horizontal"
    pc,                 \* where process_files_and_tables is
    file_chunks,        \* line 245
    file_no,            \* the file chunk the loop of line 258 is at, from 1
    table_chunks,       \* line 260, of the current file chunk
    i,                  \* the index of line 279, from 0
    grouped_tables,     \* line 255: slot -> the frames of the slot
    master_item_order,  \* line 256: slot -> the labels of the slot
    final_summaries,    \* line 307
    pdf_files,          \* the uploaded files
    keywords,           \* the keywords entered
    step,               \* where tool 1 is
    all_rows,           \* line 19
    pdf_no,             \* the file the loop of line 24 is at, from 1
    page_no,            \* the page the loop of line 56 is at, from 1
    found_in_file,      \* line 39
    messages,           \* what st.error and st.warning have shown
    df_result,          \* what extract_tables_from_multiple_pdfs returned
    download,           \* the rows of the spreadsheet offered for download
    cell_value,         \* the argument of a call of detect_year_header
    year_header,        \* what the call returned, <<>> for None
    detect_pc           \* where the call is

vars2 == <<df_full, integration_mode, pc, file_chunks, file_no, table_chunks, i,
           grouped_tables, master_item_order, final_summaries>>

vars1 == <<pdf_files, keywords, step, all_rows, pdf_no, page_no, found_in_file,
           messages, df_result, download>>

vars3 == <<cell_value, year_header, detect_pc>>

vars == <<vars2, vars1, vars3>>

None == [none |-> TRUE, rows |-> <<>>]

\* Tool 1 before any upload
Idle1 ==
    /\ pdf_files = <<>>
    /\ keywords = <<>>
    /\ step = "idle"
    /\ all_rows = <<>>
    /\ pdf_no = 0
    /\ page_no = 0
    /\ found_in_file = FALSE
    /\ messages = <<>>
    /\ df_result = None
    /\ download = <<>>

\* No call of detect_year_header on its own
Idle3 ==
    /\ cell_value = <<>>
    /\ year_header = <<>>
    /\ detect_pc = "idle"

\* Tool 2 before any upload
Idle2 ==
    /\ df_full = <<>>
    /\ integration_mode = "vertical"
    /\ pc = "idle"
    /\ file_chunks = <<>>
    /\ file_no = 0
    /\ table_chunks = <<>>
    /\ i = 0
    /\ grouped_tables = [n \in SlotIds |-> <<>>]
    /\ master_item_order = [n \in SlotIds |-> <<>>]
    /\ final_summaries = <<>>

(***************************************************************************)
(* Tool 2: process_files_and_tables, from line 243 on                      *)
(***************************************************************************)
InitProcess(sheets) ==
    /\ df_full \in sheets
    /\ integration_mode \in Modes
    /\ pc = "split_files"
    /\ file_chunks = <<>>
    /\ file_no = 0
    /\ table_chunks = <<>>
    /\ i = 0
    /\ grouped_tables = [n \in SlotIds |-> <<>>]
    /\ master_item_order = [n \in SlotIds |-> <<>>]
    /\ final_summaries = <<>>
    /\ Idle1
    /\ Idle3

\* Lines 244-256
SplitFiles ==
    /\ pc = "split_files"
    /\ file_chunks' = FileChunks(df_full)
    /\ file_no' = 1
    /\ pc' = "next_file"
    /\ UNCHANGED <<df_full, integration_mode, table_chunks, i, grouped_tables,
                   master_item_order, final_summaries, vars1, vars3>>

\* Lines 258-277: the next file chunk is cut into its table chunks; after
\* the last one the summaries are built (line 307).
SplitTables ==
    /\ pc = "next_file"
    /\ IF file_no <= Len(file_chunks)
       THEN /\ table_chunks' = TableChunks(file_chunks[file_no])
            /\ pc' = "table_chunk"
       ELSE /\ table_chunks' = <<>>
            /\ pc' = "summaries"
    /\ i' = 0
    /\ UNCHANGED <<df_full, integration_mode, file_chunks, file_no, grouped_tables,
                   master_item_order, final_summaries, vars1, vars3>>

\* An unsound collection: the frames of a file go to the slots 0, 1, ... in
\* turn, so a chunk that gives no frame moves the later ones down.
CollectCompacting(res) ==
    IF res.ok /\ res.frame.items # <<>>
    THEN \E slot \in {Cardinality({k \in 1..i :
                         \E chunk \in {CleanTableChunk(table_chunks[k])} :
                             /\ chunk # <<>>
                             /\ Merger(integration_mode, chunk).ok
                             /\ Merger(integration_mode, chunk).frame.items # <<>>})} :
             /\ grouped_tables' = [grouped_tables EXCEPT ![slot] = Append(@, res.frame)]
             /\ master_item_order' =
                    [master_item_order EXCEPT
                        ![slot] = UpdateMasterOrder(@, res.item_order)]
    ELSE UNCHANGED <<grouped_tables, master_item_order>>

\* Lines 292-305: what one merger result does to the slot i.
Collect(res) ==
    IF res.ok /\ res.frame.items # <<>>
    THEN /\ grouped_tables' = [grouped_tables EXCEPT ![i] = Append(@, res.frame)]
         /\ master_item_order' =
                [master_item_order EXCEPT ![i] = UpdateMasterOrder(@, res.item_order)]
    ELSE UNCHANGED <<grouped_tables, master_item_order>>

\* Lines 279-305: one pass of the loop over the table chunks of a file.
ProcessTableChunk ==
    /\ pc = "table_chunk"
    /\ i < Len(table_chunks)
    /\ \E clean_table_chunk \in {CleanTableChunk(table_chunks[i + 1])} :
           IF clean_table_chunk = <<>>
           THEN UNCHANGED <<grouped_tables, master_item_order>>
           ELSE \E res \in {Merger(integration_mode, clean_table_chunk)} : Collect(res)
    /\ i' = i + 1
    /\ UNCHANGED <<df_full, integration_mode, pc, file_chunks, file_no, table_chunks,
                   final_summaries, vars1, vars3>>

\* Line 279 at the end of the table chunks: on to the next file chunk.
EndFile ==
    /\ pc = "table_chunk"
    /\ i >= Len(table_chunks)
    /\ file_no' = file_no + 1
    /\ pc' = "next_file"
    /\ UNCHANGED <<df_full, integration_mode, file_chunks, table_chunks, i,
                   grouped_tables, master_item_order, final_summaries, vars1, vars3>>

\* Line 308: the slots that have frames, in increasing order.
SlotKeys(tables) == SelectIdx(MaxTables, LAMBDA n : tables[n] # <<>>, 0)

\* Lines 307-348: the summaries of the slots that have frames, by slot.
Summarise ==
    /\ pc = "summaries"
    /\ \E keys \in {SlotKeys(grouped_tables)} :
           final_summaries' =
               [k \in 1..Len(keys) |->
                   BuildSummary(grouped_tables[keys[k]], master_item_order[keys[k]])]
    /\ pc' = "done"
    /\ UNCHANGED <<df_full, integration_mode, file_chunks, file_no, table_chunks, i,
                   grouped_tables, master_item_order, vars1, vars3>>

Next ==
    \/ SplitFiles
    \/ SplitTables
    \/ ProcessTableChunk
    \/ EndFile
    \/ Summarise

Init == InitProcess(OrderSheets \cup SlotSheets \cup BareSheets)

Spec == Init /\ [][Next]_vars

InitGrid == InitProcess(GridSheets)

SpecGrid == InitGrid /\ [][Next]_vars

(***************************************************************************)
(* Tool 1: the button (lines 401-440) and                                  *)
(* extract_tables_from_multiple_pdfs                                       *)
(***************************************************************************)
InitExtract ==
    /\ pdf_files \in SeqsOf(PdfFiles, 0, MaxPdfFiles)
    /\ keywords \in {<<>>, <<"kw">>}
    /\ step = "idle"
    /\ all_rows = <<>>
    /\ pdf_no = 0
    /\ page_no = 0
    /\ found_in_file = FALSE
    /\ messages = <<>>
    /\ df_result = None
    /\ download = <<>>
    /\ Idle2
    /\ Idle3

\* Lines 401-412, 439-440 and 19-22: the button is pressed.
Click ==
    /\ step = "idle"
    /\ IF pdf_files = <<>>
       THEN /\ messages' = Append(messages, <<"error", "no files">>)
            /\ step' = "shown"
            /\ UNCHANGED pdf_no
       ELSE IF keywords = <<>>
       THEN /\ messages' = Append(messages, <<"error", "no keywords">>)
            /\ step' = "returned"
            /\ UNCHANGED pdf_no
       ELSE /\ step' = "file"
            /\ pdf_no' = 1
            /\ UNCHANGED messages
    /\ UNCHANGED <<pdf_files, keywords, all_rows, page_no, found_in_file, df_result,
                   download, vars2, vars3>>

\* Lines 24-54: the marker rows of the next file, its page range, and the
\* opening of the file; a file that does not open or whose range is empty
\* is left (continue).
BeginFile ==
    /\ step = "file"
    /\ pdf_no <= Len(pdf_files)
    /\ all_rows' = all_rows \o << <<"file", pdf_no>>, <<>> >>
    /\ found_in_file' = FALSE
    /\ IF ~pdf_files[pdf_no].opens
       THEN /\ messages' = Append(messages, <<"error", pdf_no>>)
            /\ pdf_no' = pdf_no + 1
            /\ UNCHANGED <<step, page_no>>
       ELSE IF StartIndex(pdf_files[pdf_no]) >= EndIndex(pdf_files[pdf_no])
       THEN /\ messages' = Append(messages, <<"warning", "page range", pdf_no>>)
            /\ pdf_no' = pdf_no + 1
            /\ UNCHANGED <<step, page_no>>
       ELSE /\ page_no' = StartIndex(pdf_files[pdf_no]) + 1
            /\ step' = "page"
            /\ UNCHANGED <<messages, pdf_no>>
    /\ UNCHANGED <<pdf_files, keywords, df_result, download, vars2, vars3>>

\* Lines 56-68: one page of the range is read without an exception.
ReadPage ==
    /\ step = "page"
    /\ page_no <= EndIndex(pdf_files[pdf_no])
    /\ ~pdf_files[pdf_no].pages[page_no].raises
    /\ IF pdf_files[pdf_no].pages[page_no].keyword
       THEN /\ found_in_file' = TRUE
            /\ all_rows' = all_rows
                   \o TableRows(pdf_no, page_no, pdf_files[pdf_no].pages[page_no].tables, 1)
       ELSE UNCHANGED <<found_in_file, all_rows>>
    /\ page_no' = page_no + 1
    /\ UNCHANGED <<pdf_files, keywords, step, pdf_no, messages, df_result, download,
                   vars2, vars3>>

\* Lines 69-71: reading a page raises; the exception is caught and the loop
\* goes on with the next file.
PageRaises ==
    /\ step = "page"
    /\ page_no <= EndIndex(pdf_files[pdf_no])
    /\ pdf_files[pdf_no].pages[page_no].raises
    /\ messages' = Append(messages, <<"error", pdf_no>>)
    /\ pdf_no' = pdf_no + 1
    /\ step' = "file"
    /\ UNCHANGED <<pdf_files, keywords, all_rows, page_no, found_in_file, df_result,
                   download, vars2, vars3>>

\* Lines 73-74: the pages of the file are done.
EndPages ==
    /\ step = "page"
    /\ page_no > EndIndex(pdf_files[pdf_no])
    /\ messages' = IF found_in_file THEN messages
                   ELSE Append(messages, <<"warning", "not found", pdf_no>>)
    /\ pdf_no' = pdf_no + 1
    /\ step' = "file"
    /\ UNCHANGED <<pdf_files, keywords, all_rows, page_no, found_in_file, df_result,
                   download, vars2, vars3>>

\* Lines 76-78: after the last file; None unless some row is not empty.
Return ==
    /\ step = "file"
    /\ pdf_no > Len(pdf_files)
    /\ df_result' = IF \E k \in 1..Len(all_rows) : all_rows[k] # <<>>
                    THEN [none |-> FALSE, rows |-> all_rows]
                    ELSE None
    /\ step' = "returned"
    /\ UNCHANGED <<pdf_files, keywords, all_rows, pdf_no, page_no, found_in_file,
                   messages, download, vars2, vars3>>

\* Lines 414-438: a result that is not None and not empty is shown and
\* written to the spreadsheet offered for download.
Show ==
    /\ step = "returned"
    /\ download' = IF ~df_result.none /\ df_result.rows # <<>> THEN df_result.rows
                   ELSE <<>>
    /\ step' = "shown"
    /\ UNCHANGED <<pdf_files, keywords, all_rows, pdf_no, page_no, found_in_file,
                   messages, df_result, vars2, vars3>>

NextExtract ==
    \/ Click
    \/ BeginFile
    \/ ReadPage
    \/ PageRaises
    \/ EndPages
    \/ Return
    \/ Show

SpecExtract == InitExtract /\ [][NextExtract]_vars

(***************************************************************************)
(* detect_year_header called on its own (as lines 124 and 191 call it).    *)
(* The cell texts are up to MaxFragments of the fragments below, written   *)
(* one after the other.                                                    *)
(***************************************************************************)
MaxFragments == 2

LowerQ4 == <<"2", "0", "2", "3", "q", "4">>

NoQuarter == <<"2", "0", "2", "4", "Q", "5">>

YearMonth23 == <<"2", "0", "2", "3", "nen", "3", "gatsu">>

FiscalYear22 == <<"2", "0", "2", "2", "nen", "do">>

Short2512 == <<"2", "5", "/", "1", "2">>

Year2024 == <<"2", "0", "2", "4">>

Year202403 == <<"2", "0", "2", "4", "0", "3">>

Fragments ==
    {Q1, LowerQ4, NoQuarter, From24Apr, YearMonth23, FiscalYear22, ShortYM3,
     Short2512, YM12, Year2024, Year202403, BlankText, LA}

CellTexts == {Flatten(q) : q \in SeqsOf(Fragments, 1, MaxFragments)}

InitDetect ==
    /\ cell_value \in CellTexts
    /\ year_header = <<>>
    /\ detect_pc = "call"
    /\ Idle1
    /\ Idle2

\* Lines 85-111: one call of detect_year_header and its return.
Detect ==
    /\ detect_pc = "call"
    /\ year_header' = detect_year_header(cell_value)
    /\ detect_pc' = "returned"
    /\ UNCHANGED <<cell_value, vars1, vars2>>

NextDetect == Detect

SpecDetect == InitDetect /\ [][NextDetect]_vars

(***************************************************************************)
(* Properties                                                              *)
(***************************************************************************)
SetOf(seq) == {seq[k] : k \in 1..Len(seq)}

NoRepeats(seq) == \A a, b \in 1..Len(seq) : a # b => seq[a] # seq[b]

\* The position of x in seq (seq holds x once).
PositionIn(seq, x) == CHOOSE k \in 1..Len(seq) : seq[k] = x

\* The elements of seq that are in S, in seq's order.
Restrict(seq, S) == Pick(seq, SelectIdx(Len(seq), LAMBDA k : seq[k] \in S, 1))

\* new is old with the labels of item_order folded in: nothing lost, the
\* old labels in their old order, and every new label right after the label
\* that precedes it in item_order, the first label of item_order at the
\* front.
FoldedIn(old, item_order, new) ==
    /\ NoRepeats(new)
    /\ SetOf(new) = SetOf(old) \cup SetOf(item_order)
    /\ Restrict(new, SetOf(old)) = old
    /\ \A k \in 1..Len(item_order) :
           item_order[k] \notin SetOf(old) =>
               IF k = 1 THEN new[1] = item_order[1]
               ELSE PositionIn(new, item_order[k])
                        = PositionIn(new, item_order[k - 1]) + 1

\* The frame a step has added to slot n.
FrameAdded(n) == grouped_tables'[n][Len(grouped_tables'[n])]

\* A step folds a frame into a slot that already has labels.
FoldsInto(n) ==
    /\ Len(grouped_tables'[n]) = Len(grouped_tables[n]) + 1
    /\ master_item_order[n] # <<>>

\* C1: when a frame's item order is folded into the non-empty master order
\* of a slot, every label not yet present is inserted right after the label
\* visited before it in that frame, or at the front if it is the frame's
\* first label, and the labels already present keep their order; the item
\* orders [A,B,C] then [A,D,B] give [A,D,B,C].
C1_MasterOrderFold ==
    [][\A n \in SlotIds :
           FoldsInto(n) =>
               /\ FoldedIn(master_item_order[n], FrameAdded(n).items,
                           master_item_order'[n])
               /\ (/\ master_item_order[n] = <<LA, LB, LC>>
                   /\ FrameAdded(n).items = <<LA, LD, LB>>)
                      => master_item_order'[n] = <<LA, LD, LB, LC>>]_vars

\* C1 witness: a slot whose frames have the item orders [A,B,C] and [A,D,B]
\* and whose master order is [A,D,B,C].
C1_Witness ==
    \E n \in SlotIds :
        /\ Len(grouped_tables[n]) = 2
        /\ grouped_tables[n][1].items = <<LA, LB, LC>>
        /\ grouped_tables[n][2].items = <<LA, LD, LB>>
        /\ master_item_order[n] = <<LA, LD, LB, LC>>

\* The year and month a canonical label YYYY/M or YYYY/MM names, as a count
\* of months; the labels of that notation.
IsYearMonthLabel(label) ==
    /\ Len(label) \in {6, 7}
    /\ FourDigitsAt(label, 1)
    /\ label[5] = "/"
    /\ AllDigits(SubSeq(label, 6, Len(label)))

MonthCount(label) ==
    12 * DigitsToNat(SubSeq(label, 1, 4)) + DigitsToNat(SubSeq(label, 6, Len(label)))

\* C2: in a final summary the period columns stand in chronological order:
\* of two year-month columns YYYY/M the earlier period is to the left, so
\* 2024/3 is to the left of 2024/12.
C2_ChronologicalColumns ==
    pc = "done" =>
        \A k \in 1..Len(final_summaries) :
            \A a, b \in 1..Len(final_summaries[k].cols) :
                (/\ a < b
                 /\ IsYearMonthLabel(final_summaries[k].cols[a])
                 /\ IsYearMonthLabel(final_summaries[k].cols[b]))
                    => MonthCount(final_summaries[k].cols[a])
                           <= MonthCount(final_summaries[k].cols[b])

\* The summary of slot n, which has frames.
SummaryOf(n) == final_summaries[PositionIn(SlotKeys(grouped_tables), n)]

\* The first of the frames that has the period column.
FirstFrameWith(frames, period) ==
    frames[SetMin({k \in 1..Len(frames) : period \in SetOf(frames[k].cols)})]

\* What a frame says of a label in a period column, 0 where it says nothing.
ValueIn(frame, label, period) ==
    IF label \notin SetOf(frame.items) THEN <<0>>
    ELSE LET v == frame.vals[PositionIn(frame.items, label)]
                            [PositionIn(frame.cols, period)]
         IN  IF v = NaN THEN <<0>> ELSE v

\* C5: a period column of a summary holds, for every label, the value of the
\* first frame of the slot that has that period column, and 0 for a label
\* that frame does not have, whatever later frames say of the period.
C5_FirstFrameWins ==
    pc = "done" =>
        \A n \in SetOf(SlotKeys(grouped_tables)) :
            /\ NoRepeats(SummaryOf(n).cols)
            /\ SetOf(SummaryOf(n).cols)
                   = UNION {SetOf(grouped_tables[n][k].cols) :
                               k \in 1..Len(grouped_tables[n])}
            /\ Len(SummaryOf(n).items) = Len(master_item_order[n])
            /\ \A r \in 1..Len(SummaryOf(n).items) :
                   \A c \in 1..Len(SummaryOf(n).cols) :
                       SummaryOf(n).vals[r][c]
                           = ValueIn(FirstFrameWith(grouped_tables[n], SummaryOf(n).cols[c]),
                                     master_item_order[n][r], SummaryOf(n).cols[c])

\* C5 witness: two frames of a slot have the same period; a label of both
\* shows the first frame's value, not the second's, and a label of the
\* second frame only shows 0 although the second frame has a value for it.
C5_Witness ==
    /\ pc = "done"
    /\ \E n \in SetOf(SlotKeys(grouped_tables)) :
           /\ Len(grouped_tables[n]) = 2
           /\ \E period \in SetOf(grouped_tables[n][1].cols)
                              \cap SetOf(grouped_tables[n][2].cols) :
                  /\ \E both \in SetOf(grouped_tables[n][1].items)
                                   \cap SetOf(grouped_tables[n][2].items) :
                         /\ ValueIn(grouped_tables[n][1], both, period)
                                # ValueIn(grouped_tables[n][2], both, period)
                         /\ ValueIn(SummaryOf(n), both, period)
                                = ValueIn(grouped_tables[n][1], both, period)
                  /\ \E later \in SetOf(grouped_tables[n][2].items)
                                    \ SetOf(grouped_tables[n][1].items) :
                         /\ ValueIn(grouped_tables[n][2], later, period) # <<0>>
                         /\ ValueIn(SummaryOf(n), later, period) = <<0>>

\* The frame the chunk at position n of file chunk f gives, if it gives one.
FramesAt(f, n) ==
    LET chunks == TableChunks(file_chunks[f])
    IN  IF n + 1 > Len(chunks) THEN <<>>
        ELSE LET chunk == CleanTableChunk(chunks[n + 1])
             IN  IF chunk = <<>> THEN <<>>
                 ELSE LET res == Merger(integration_mode, chunk)
                      IN  IF res.ok /\ res.frame.items # <<>>
                          THEN <<res.frame>> ELSE <<>>

\* C8: slot n holds the frames of the chunks that stand at position n in
\* their files and of no other chunk, in file order; an empty chunk, or one
\* that gives no frame, adds nothing and moves no other chunk's slot.
C8_SlotByPosition ==
    pc \in {"summaries", "done"} =>
        \A n \in SlotIds :
            grouped_tables[n]
                = Flatten([f \in 1..Len(file_chunks) |-> FramesAt(f, n)])

\* C8 witness: a file whose chunk at position 1 gives no frame has fed its
\* chunk at position 2 into slot 2, and slot 1 has nothing from it.
C8_Witness ==
    /\ pc = "done"
    /\ \E f \in 1..Len(file_chunks) :
           /\ FramesAt(f, 1) = <<>>
           /\ FramesAt(f, 2) # <<>>
           /\ \E k \in 1..Len(grouped_tables[2]) :
                  <<grouped_tables[2][k]>> = FramesAt(f, 2)
           /\ \A k \in 1..Len(grouped_tables[1]) :
                  <<grouped_tables[1][k]>> # FramesAt(f, 2)

(***************************************************************************)
(* Properties of one table chunk.  They are stated for a sheet of one file *)
(* with one table, whose rows follow the file marker, the blank row and    *)
(* the page marker and are the only chunk of slot 1.                       *)
(***************************************************************************)
ChunkRows == SubSeq(df_full, 4, Len(df_full))

ChunkLabels == [r \in 1..Len(ChunkRows) |-> Strip(ChunkRows[r][1])]

\* The label of row r with the ordinal suffix of a catch-all label.
Disambiguated(r) ==
    IF ChunkLabels[r] = Sonota
    THEN Sonota \o TempPrefix
             \o NatToStr(Cardinality({j \in 1..(r - 1) : ChunkLabels[j] = Sonota}))
    ELSE ChunkLabels[r]

LabelledRowsOfChunk == {r \in 1..Len(ChunkRows) : ChunkLabels[r] # <<>>}

\* The cells of the chunk in which a period header is detected, and the
\* canonical period labels detected.
HeaderCells ==
    {rc \in (1..Len(ChunkRows)) \X (1..Width(ChunkRows)) :
        detect_year_header(ChunkRows[rc[1]][rc[2]]) # <<>>}

PeriodsDetected == {detect_year_header(ChunkRows[rc[1]][rc[2]]) : rc \in HeaderCells}

\* The first cell, by row and then column, in which period is detected.
FirstCellOf(period) ==
    CHOOSE rc \in HeaderCells :
        /\ detect_year_header(ChunkRows[rc[1]][rc[2]]) = period
        /\ \A other \in HeaderCells :
               detect_year_header(ChunkRows[other[1]][other[2]]) = period
                   => \/ rc[1] < other[1]
                      \/ rc[1] = other[1] /\ rc[2] <= other[2]

\* The header row of the horizontal reading: the first of the first rows
\* with a header cell, 0 if there is none.
HeaderRowOfChunk ==
    LET rows == {rc[1] : rc \in {h \in HeaderCells : h[1] <= HeaderScanRows}}
    IN  IF rows = {} THEN 0 ELSE SetMin(rows)

\* The data rows of the horizontal reading: below the header row, labelled,
\* with a number in the last column.
HorizontalDataRows ==
    {r \in LabelledRowsOfChunk :
        /\ r > HeaderRowOfChunk
        /\ ParseNumeric(ChunkRows[r][Width(ChunkRows)]) # NaN}

RECURSIVE TotalOf(_)
TotalOf(rows) ==
    IF rows = {} THEN 0
    ELSE ParseNumeric(ChunkRows[SetMin(rows)][Width(ChunkRows)])[1]
             + TotalOf(rows \ {SetMin(rows)})

\* The rows of a frame that have the label.
RowsLabelled(frame, label) == {k \in 1..Len(frame.items) : frame.items[k] = label}

\* C4: a label other than the catch-all label that stands on several data
\* rows of a chunk has one row in the horizontal frame, valued with the sum
\* of the parsed values of those rows, and one row in the vertical frame,
\* valued in each period column with the parsed value of the first of the
\* rows below that period's header.
C4_SumOrKeepFirst ==
    pc = "done" =>
        \A label \in SetOf(ChunkLabels) \ {Sonota, <<>>} :
            /\ integration_mode = "horizontal" =>
                   \E rows \in {{r \in HorizontalDataRows : ChunkLabels[r] = label}} :
                       Cardinality(rows) >= 2 =>
                           /\ Len(grouped_tables[1]) = 1
                           /\ \E k \in 1..Len(grouped_tables[1][1].items) :
                                  /\ RowsLabelled(grouped_tables[1][1], label) = {k}
                                  /\ grouped_tables[1][1].vals[k] = << <<TotalOf(rows)>> >>
            /\ integration_mode = "vertical" =>
                   \A period \in PeriodsDetected :
                       \E rows \in {{r \in LabelledRowsOfChunk :
                                        /\ r > FirstCellOf(period)[1]
                                        /\ ChunkLabels[r] = label}} :
                           Cardinality(rows) >= 2 =>
                               /\ Len(grouped_tables[1]) = 1
                               /\ \E k \in 1..Len(grouped_tables[1][1].items) :
                                      /\ RowsLabelled(grouped_tables[1][1], label) = {k}
                                      /\ ValueIn(grouped_tables[1][1], label, period)
                                             = NumericOrZero(
                                                   ChunkRows[SetMin(rows)]
                                                            [FirstCellOf(period)[2]])

\* C4 witness: the rows A = 100 and A = 1,050 have given the one row
\* A = 1150 in horizontal mode.
C4_Witness ==
    /\ pc = "done"
    /\ integration_mode = "horizontal"
    /\ ChunkRows = <<<<LA, Num(100)>>, <<LA, <<"1", ",", "0", "5", "0">>>>>>
    /\ Len(grouped_tables[1]) = 1
    /\ grouped_tables[1][1].items = <<LA>>
    /\ grouped_tables[1][1].vals = << << <<1150>> >> >>

\* The first row of the chunk with the disambiguated label.
FirstRowOf(label) == SetMin({r \in LabelledRowsOfChunk : Disambiguated(r) = label})

\* C6: for a chunk with a period header the vertical merger's item list is
\* the trimmed column-0 labels of the whole chunk, blank labels left out,
\* catch-all labels ordinal-suffixed, first occurrences only and in their
\* order; the frame has one row per entry, in that order, and one column
\* per canonical period label detected.
C6_VerticalItemList ==
    (pc = "done" /\ integration_mode = "vertical" /\ PeriodsDetected # {}) =>
        IF LabelledRowsOfChunk = {} THEN grouped_tables[1] = <<>>
        ELSE /\ Len(grouped_tables[1]) = 1
             /\ NoRepeats(master_item_order[1])
             /\ SetOf(master_item_order[1])
                    = {Disambiguated(r) : r \in LabelledRowsOfChunk}
             /\ \A a, b \in 1..Len(master_item_order[1]) :
                    a < b => FirstRowOf(master_item_order[1][a])
                                 < FirstRowOf(master_item_order[1][b])
             /\ grouped_tables[1][1].items = master_item_order[1]
             /\ Len(grouped_tables[1][1].vals) = Len(master_item_order[1])
             /\ NoRepeats(grouped_tables[1][1].cols)
             /\ SetOf(grouped_tables[1][1].cols) = PeriodsDetected
             /\ \A k \in 1..Len(grouped_tables[1][1].vals) :
                    Len(grouped_tables[1][1].vals[k]) = Len(grouped_tables[1][1].cols)

\* C6 witness: a vertical frame whose item list has a label of a row at or
\* above the period header and is shorter than the labelled rows are many.
C6_Witness ==
    /\ pc = "done"
    /\ integration_mode = "vertical"
    /\ Len(grouped_tables[1]) = 1
    /\ \E rc \in HeaderCells :
           \E r \in LabelledRowsOfChunk :
               /\ r <= rc[1]
               /\ Disambiguated(r) \in SetOf(grouped_tables[1][1].items)
               /\ \A below \in LabelledRowsOfChunk :
                      below > rc[1] => Disambiguated(below) # Disambiguated(r)
    /\ Len(master_item_order[1]) < Cardinality(LabelledRowsOfChunk)

\* The rows of the chunk labelled with the catch-all label, and those of
\* them the merger of the run's mode reads as data rows: all of them in
\* vertical mode, the horizontal data rows in horizontal mode.
SonotaRows == {r \in LabelledRowsOfChunk : ChunkLabels[r] = Sonota}

SonotaRowsRead ==
    IF integration_mode = "vertical" THEN SonotaRows
    ELSE SonotaRows \cap HorizontalDataRows

\* The disambiguated catch-all labels of a frame.
SuffixedLabels(frame) ==
    {frame.items[k] : k \in {j \in 1..Len(frame.items) :
                                /\ frame.items[j] # Sonota
                                /\ StripTempSuffix(frame.items[j]) = Sonota}}

\* C3 as stated: a chunk with N rows labelled with the catch-all label
\* gives, in either mode, a frame with N distinct disambiguated rows and a
\* summary with exactly N rows labelled with the catch-all label.
C3_AllSonotaRowsKept ==
    (pc = "done" /\ SonotaRows # {}) =>
        /\ Len(grouped_tables[1]) = 1
        /\ Cardinality(SuffixedLabels(grouped_tables[1][1])) = Cardinality(SonotaRows)
        /\ Len(final_summaries) = 1
        /\ Cardinality(RowsLabelled(final_summaries[1], Sonota)) = Cardinality(SonotaRows)

\* C3, amended: if the merger gives a frame for the chunk, and N of the
\* rows it reads as data rows are labelled with the catch-all label, the
\* frame has N distinct disambiguated rows, none of them with the bare
\* label, and the summary of the slot has exactly N rows labelled with the
\* catch-all label and none with a suffix left.
C3_SonotaRowsRead ==
    (pc = "done" /\ Len(grouped_tables[1]) = 1) =>
        /\ Cardinality(SuffixedLabels(grouped_tables[1][1]))
               = Cardinality(SonotaRowsRead)
        /\ RowsLabelled(grouped_tables[1][1], Sonota) = {}
        /\ Len(final_summaries) = 1
        /\ Cardinality(RowsLabelled(final_summaries[1], Sonota))
               = Cardinality(SonotaRowsRead)
        /\ SuffixedLabels(final_summaries[1]) = {}

\* C3 witness: of three rows with the catch-all label two are read as data
\* rows, and the summary has two rows with the catch-all label.
C3_Witness ==
    /\ pc = "done"
    /\ Cardinality(SonotaRows) = 3
    /\ Cardinality(SonotaRowsRead) = 2
    /\ Len(grouped_tables[1]) = 1
    /\ Cardinality(SuffixedLabels(grouped_tables[1][1])) = 2
    /\ Len(final_summaries) = 1
    /\ Cardinality(RowsLabelled(final_summaries[1], Sonota)) = 2

\* The first row of the chunk with the trimmed label.
FirstLabelRow(label) == SetMin({r \in LabelledRowsOfChunk : ChunkLabels[r] = label})

\* C7: the labels of the summary of a slot fed by one chunk stand in the
\* order in which they first occur in the label column of the chunk, in
\* either mode.
C7_FirstSeenOrder ==
    (pc = "done" /\ Len(final_summaries) = 1) =>
        /\ SetOf(final_summaries[1].items) \subseteq SetOf(ChunkLabels) \ {<<>>}
        /\ \A a, b \in 1..Len(final_summaries[1].items) :
               a < b => FirstLabelRow(final_summaries[1].items[a])
                            <= FirstLabelRow(final_summaries[1].items[b])

(***************************************************************************)
(* Properties of tool 1                                                    *)
(***************************************************************************)
IsTableRow(row) == row # <<>> /\ row[1] \in {"page", "row"}

\* The table rows among rows that file f has contributed, in order.
RowsOfFile(f, rows) ==
    Pick(rows, SelectIdx(Len(rows), LAMBDA k : IsTableRow(rows[k]) /\ rows[k][2] = f, 1))

\* The button has been pressed with files and keywords, and the run is over.
ExtractionOver == step = "shown" /\ pdf_files # <<>> /\ keywords # <<>>

\* C9: when no file has contributed a table row, the function returns no
\* result and no spreadsheet is offered.
C9_NothingFound ==
    (ExtractionOver /\ \A k \in 1..Len(all_rows) : ~IsTableRow(all_rows[k])) =>
        /\ df_result.none
        /\ download = <<>>

\* Processing file f raises: it does not open, or a page of its range
\* raises.
FileRaises(f) ==
    \/ ~pdf_files[f].opens
    \/ \E p \in (StartIndex(pdf_files[f]) + 1)..EndIndex(pdf_files[f]) :
           pdf_files[f].pages[p].raises

\* The table rows file f contributes if nothing raises: those of the tables
\* of the pages of its range that have a keyword.
RowsWithoutFailure(f) ==
    LET pages == [k \in 1..(EndIndex(pdf_files[f]) - StartIndex(pdf_files[f])) |->
                     StartIndex(pdf_files[f]) + k]
        rows  == Flatten([k \in 1..Len(pages) |->
                     IF pdf_files[f].pages[pages[k]].keyword
                     THEN TableRows(f, pages[k], pdf_files[f].pages[pages[k]].tables, 1)
                     ELSE <<>>])
    IN  RowsOfFile(f, rows)

\* C10: a file whose processing raises contributes no table row to the
\* result, and every other file contributes the rows it contributes when
\* nothing raises.
C10_FailedFileSkipped ==
    ExtractionOver =>
        \A f \in 1..Len(pdf_files) :
            RowsOfFile(f, df_result.rows)
                = IF FileRaises(f) THEN <<>> ELSE RowsWithoutFailure(f)

(***************************************************************************)
(* Properties of detect_year_header                                        *)
(***************************************************************************)
\* The patterns of the list that match the trimmed cell, by their place in
\* the list.
Matching == {k \in 1..Len(patterns(Strip(cell_value))) :
                patterns(Strip(cell_value))[k] # <<>>}

\* The places in the cell where a quarter code 20YYQn stands, in either
\* case of the letter.
QuarterCodes == {k \in 1..Len(cell_value) : QuarterAt(cell_value, k)}

\* C11: detect_year_header returns the output of the first pattern, in the
\* order quarter code, period start, Japanese year-month, Japanese fiscal
\* year, two-digit-year slash, four-digit-year slash, bare number, that
\* matches the cell, and None if none matches; a cell with a quarter code
\* gives that quarter code, whatever else matches.
C11_FirstMatcherWins ==
    detect_pc = "returned" =>
        /\ IF Matching = {} THEN year_header = <<>>
           ELSE /\ year_header = patterns(Strip(cell_value))[SetMin(Matching)]
                /\ year_header # <<>>
        /\ QuarterCodes # {} =>
               year_header = SubSeq(cell_value, SetMin(QuarterCodes),
                                    SetMin(QuarterCodes) + 3)
                                 \o <<"Q", cell_value[SetMin(QuarterCodes) + 5]>>

\* C11 witness: two patterns match the cell with different outputs, and the
\* call has returned the output of the one that is earlier in the list.
C11_Witness ==
    /\ detect_pc = "returned"
    /\ \E j, k \in Matching :
           /\ j = SetMin(Matching)
           /\ j < k
           /\ patterns(Strip(cell_value))[j] # patterns(Strip(cell_value))[k]
           /\ year_header = patterns(Strip(cell_value))[j]

====
